---------------------------- MODULE Spec2Model ----------------------------
(***************************************************************************)
(* Model of heat3D.cpp: the explicit 3D heat-equation solver distributed   *)
(* over an MPI cartesian process grid (domain decomposition, halo          *)
(* exchange, boundary completion, convergence protocol).                   *)
(*                                                                         *)
(* Arithmetic. floatT values are modelled in fixed point: the integer v    *)
(* stands for v / Scale, and a product with a rational coefficient is      *)
(* rounded (floor) where the floating-point product is rounded.  The       *)
(* residual lives on a finer grid (ResUnit per field unit) so that         *)
(* numeric_limits<floatT>::min(), the smallest positive value, is the      *)
(* integer DblMin = 1 lying strictly between 0 and every non-zero         *)
(* difference of two field values.                                         *)
(*                                                                         *)
(* Buffers.  Every slot of a send or receive buffer carries, beside its    *)
(* value v, a history field org naming the cell, rank and iteration the    *)
(* value was packed from.  No operation of the program reads org.          *)
(***************************************************************************)
EXTENDS Integers, Sequences, FiniteSets, TLC

\* ------------------------------------------------------------------ bounds
MaxProcs == 4
MaxIter == 2

\* --------------------------------------------------------------- constants
NUMBER_OF_DIMENSIONS == 3
X == 0
Y == 1
Z == 2
LEFT == 0
RIGHT == 1
BOTTOM == 2
TOP == 3
BACK == 4
FRONT == 5
Directions == 0 .. (NUMBER_OF_DIMENSIONS * 2 - 1)
Axes == 0 .. (NUMBER_OF_DIMENSIONS - 1)
\* MPI_PROC_NULL, the rank MPI_Cart_shift returns where there is no neighbour
MPI_PROC_NULL == 0 - 1
\* fixed-point resolution of floatT: the value 1.0
Scale == 3600
\* resolution of the residual relative to the field
ResUnit == 2
\* std::numeric_limits<floatT>::min()
DblMin == 1
\* CFL = 0.4 = CFLNum / CFLDen
CFLNum == 2
CFLDen == 5
TagBase == 100
\* if (argc != 6)
ExpectedArgc == 6

\* ------------------------------------------------------------------- state
VARIABLES
    size,                 \* number of processes of the communicator
    argc,                 \* the number of command-line words, the program name included
    numCells,             \* argv[1..3]
    iterMax,              \* argv[4]
    eps,                  \* argv[5], a rational <<numerator, denominator>>
    eager,                \* whether MPI completes a send before it is matched
    dimension3D,          \* the process grid MPI_Dims_create chose
    chunck,               \* the cell counts of one block
    coordinates3D,        \* coordinates3D[p]: the grid coordinates of rank p
    neighbors,            \* neighbors[p][d]: the rank next to p in direction d
    pc,                   \* pc[p]: where process p stands in main
    time,                 \* loop counter of the time loop
    T, T0,                \* the two fields of each process
    sendBuffer, receiveBuffer,
    rdir,                 \* the next receive a process issues (0..5)
    res, norm, globalNorm,
    breakCondition, globalBreakCondition,
    finalNumIterations,
    error, globalError,
    chan,                 \* chan[<<src, dst>>]: messages in flight, in send order
    contribs,             \* contribs[p]: the collective calls p has entered
    report,               \* what rank 0 printed after the loop
    observed,             \* history: observed[p][n+1], whether p found res / norm < eps in iteration n
    flags,                \* history: flags[p][n+1], the globalBreakCondition p got in iteration n
    reference             \* history: the final field of an earlier run on one process, by global cell

cfgVars == <<size, argc, numCells, iterMax, eps, eager, dimension3D, chunck, coordinates3D, neighbors, reference>>
fieldVars == <<T, T0>>
bufVars == <<sendBuffer, receiveBuffer>>
convVars == <<res, norm, globalNorm, breakCondition, globalBreakCondition, finalNumIterations>>
errVars == <<error, globalError>>
histVars == <<observed, flags>>
vars == <<cfgVars, pc, time, fieldVars, bufVars, rdir, convVars, errVars, chan, contribs, report, histVars>>

Procs == DOMAIN pc

\* ------------------------------------------------------------ arithmetic
Fabs(x) == IF x < 0 THEN 0 - x ELSE x
MaxOf(S) == CHOOSE m \in S : \A y \in S : y <= m
MinOf(S) == CHOOSE m \in S : \A y \in S : m <= y
\* coefficient * x for a rational coefficient <<num, den>>, rounded
Mul(c, x) == (c[1] * x) \div c[2]

\* ---------------------------------------------------------------- topology
\* MPI_Dims_create(n, 3, {0,0,0}): the balanced factorisation, in
\* non-increasing order
DimsCreate(n) ==
    CASE n = 1 -> <<1, 1, 1>>
      [] n = 2 -> <<2, 1, 1>>
      [] n = 3 -> <<3, 1, 1>>
      [] n = 4 -> <<2, 2, 1>>
      [] n = 5 -> <<5, 1, 1>>
      [] n = 6 -> <<3, 2, 1>>
      [] n = 7 -> <<7, 1, 1>>
      [] n = 8 -> <<2, 2, 2>>
      [] n = 9 -> <<3, 3, 1>>
      [] n = 12 -> <<3, 2, 2>>
      [] n = 18 -> <<3, 3, 2>>
      [] OTHER -> <<3, 3, 3>>
DimsOf(n) == [d \in Axes |-> DimsCreate(n)[d + 1]]

\* MPI_Cart_coords: ranks number the grid in row-major order
CartCoords(dims, p) ==
    [d \in Axes |->
        CASE d = Z -> p % dims[Z]
          [] d = Y -> (p \div dims[Z]) % dims[Y]
          [] OTHER -> p \div (dims[Z] * dims[Y])]
CartRank(dims, c) == (c[X] * dims[Y] + c[Y]) * dims[Z] + c[Z]

AxisOf(d) == d \div 2
\* +1 for the directions of increasing coordinate (RIGHT, TOP, FRONT)
SignOf(d) == IF d % 2 = 1 THEN 1 ELSE 0 - 1
Opposite(d) == IF d % 2 = 1 THEN d - 1 ELSE d + 1

\* MPI_Cart_shift(comm, axis, 1, &source, &dest) on a non-periodic grid
CartShift(dims, p, d) ==
    LET c == CartCoords(dims, p)
        t == c[AxisOf(d)] + SignOf(d)
    IN  IF t < 0 \/ t >= dims[AxisOf(d)]
        THEN MPI_PROC_NULL
        ELSE CartRank(dims, [c EXCEPT ![AxisOf(d)] = t])
NeighborsOf(dims, p) == [d \in Directions |-> CartShift(dims, p, d)]
\* the directions in which p has a neighbour
NbSet(p) == {d \in Directions : neighbors[p][d] # MPI_PROC_NULL}

\* --------------------------------------------------------------- partition
\* the three asserts compiled out
DivisibleNoAssert == TRUE
\* the three asserts on the partition hold
Divisible == \A d \in Axes : (numCells[d] - 1) % dimension3D[d] = 0
ChunckOf(cells, dims) == [d \in Axes |-> ((cells[d] - 1) \div dims[d]) + 1]
Cells == (0 .. (chunck[X] - 1)) \X (0 .. (chunck[Y] - 1)) \X (0 .. (chunck[Z] - 1))
IsInterior(c) == \A d \in Axes : c[d + 1] >= 1 /\ c[d + 1] <= chunck[d] - 2
Interior == {c \in Cells : IsInterior(c)}
\* spacing[d] = domainLength[d] / (numCells[d] - 1)
spacing == [d \in Axes |-> Scale \div (numCells[d] - 1)]
\* the blocks laid side by side without the shared plane
GlobalIndexNoOverlap(p, d, l) == coordinates3D[p][d] * chunck[d] + l
\* the global index along axis d of local index l of process p:
\* coordinates3D[d] * (chunck[d] - 1) + l
GlobalIndex(p, d, l) == coordinates3D[p][d] * (chunck[d] - 1) + l
\* the cell of the whole domain that local cell c of process p stands for
GlobalCell(p, c) == <<GlobalIndex(p, X, c[X + 1]), GlobalIndex(p, Y, c[Y + 1]), GlobalIndex(p, Z, c[Z + 1])>>
\* the ramp taken in the local index
RampLocal(p, j) == j * spacing[Y]
\* (coordinates3D[Y] * (chunck[Y] - 1) + j) * spacing[Y]
Ramp(p, j) == GlobalIndex(p, Y, j) * spacing[Y]

\* Dx, Dy, Dz = dt * alpha / spacing^2 with dt = CFL / 6 * min(spacing)^2 / alpha:
\* the exact rational CFL/6 * ((numCells[d]-1) / max(numCells-1))^2
MaxCellsM1 == MaxOf({numCells[d] - 1 : d \in Axes})
Dcoef(d) == <<CFLNum * (numCells[d] - 1) * (numCells[d] - 1),
              CFLDen * (NUMBER_OF_DIMENSIONS * 2) * MaxCellsM1 * MaxCellsM1>>

\* ------------------------------------------------------- initial conditions
ZeroField == [c \in Cells |-> 0]
\* T[i][chunck[Y]-1][k] = 1.0 where there is no TOP neighbour
BCTop(nb, p, F) ==
    IF TOP \in nb THEN F
    ELSE [c \in Cells |-> IF c[Y + 1] = chunck[Y] - 1 THEN Scale ELSE F[c]]
\* the ramp in the global y position on a face `d' without neighbour
BCRamp(nb, p, d, F) ==
    IF d \in nb THEN F
    ELSE [c \in Cells |->
            IF c[AxisOf(d) + 1] = (IF d % 2 = 0 THEN 0 ELSE chunck[AxisOf(d)] - 1)
            THEN Ramp(p, c[Y + 1]) ELSE F[c]]
\* the boundary conditions in the order main applies them
InitialField(nb, p) ==
    BCRamp(nb, p, FRONT, BCRamp(nb, p, BACK,
        BCRamp(nb, p, RIGHT, BCRamp(nb, p, LEFT, BCTop(nb, p, ZeroField)))))

\* ------------------------------------------------------------------ buffers
\* the loops over a face run over the two other axes: the lower one outside
OuterAxis(d) == IF AxisOf(d) = X THEN Y ELSE X
InnerAxis(d) == IF AxisOf(d) = Z THEN Y ELSE Z
OuterCount(d) == chunck[OuterAxis(d)] - 2
InnerCount(d) == chunck[InnerAxis(d)] - 2
\* the number of counter++ steps of one pack or one face update
PackCount(d) == OuterCount(d) * InnerCount(d)
\* the element count of the MPI_Isend and MPI_Recv calls
MessageCount(d) == (chunck[OuterAxis(d)] - 1) * (chunck[InnerAxis(d)] - 1)
\* resize(...): MessageCount with a neighbour, 1 without
BufferSize(nb, d) == IF d \in nb THEN MessageCount(d) ELSE 1
NoOrigin == [rank |-> MPI_PROC_NULL, cell |-> <<0, 0, 0>>, it |-> 0]
EmptySlot == [v |-> 0, org |-> NoOrigin]
NewBuffers(nb) == [d \in Directions |-> [n \in 0 .. (BufferSize(nb, d) - 1) |-> EmptySlot]]

\* the face layer (index 0 or chunck-1) and the layer one step inside it
FaceLayer(d) == IF d % 2 = 0 THEN 0 ELSE chunck[AxisOf(d)] - 1
SendLayer(d) == IF d % 2 = 0 THEN 1 ELSE chunck[AxisOf(d)] - 2
\* the cell of layer `l' of direction d with transverse indices (a, b)
MkCell(d, l, a, b) ==
    CASE AxisOf(d) = X -> <<l, a, b>>
      [] AxisOf(d) = Y -> <<a, l, b>>
      [] OTHER -> <<a, b, l>>
\* the two loops of the pack in the other order
CounterCellSwapped(d, l, n) == MkCell(d, l, (n % OuterCount(d)) + 1, (n \div OuterCount(d)) + 1)
\* the cell the loops reach when counter = n
CounterCell(d, l, n) == MkCell(d, l, (n \div InnerCount(d)) + 1, (n % InnerCount(d)) + 1)
\* the value of counter when the loops reach the transverse indices of cell c
CounterOf(d, c) == (c[OuterAxis(d) + 1] - 1) * InnerCount(d) + (c[InnerAxis(d) + 1] - 1)

\* sendBuffer[d][counter++] = T0[layer one step inside face d][a][b]
PackSlot(p, it, d, F0, n) ==
    [v |-> F0[CounterCell(d, SendLayer(d), n)],
     org |-> [rank |-> p, cell |-> CounterCell(d, SendLayer(d), n), it |-> it]]
\* the test for a neighbour inverted
PackInverted(nb, p, it, d, F0, old) ==
    IF d \notin nb
    THEN [n \in DOMAIN old |-> IF n < PackCount(d) THEN PackSlot(p, it, d, F0, n) ELSE old[n]]
    ELSE old
\* the pack without the test for a neighbour
PackEveryDirection(nb, p, it, d, F0, old) ==
    [n \in DOMAIN old |-> IF n < PackCount(d) THEN PackSlot(p, it, d, F0, n) ELSE old[n]]
\* if (neighbors[d] != MPI_PROC_NULL) sendBuffer[d][counter++] = ...
Pack(nb, p, it, d, F0, old) ==
    IF d \in nb
    THEN [n \in DOMAIN old |-> IF n < PackCount(d) THEN PackSlot(p, it, d, F0, n) ELSE old[n]]
    ELSE old
PackAll(nb, p, it, F0, sb) == [d \in Directions |-> Pack(nb, p, it, d, F0, sb[d])]

\* ------------------------------------------------------------- face update
Shift(c, ax, s) == [c EXCEPT ![ax + 1] = c[ax + 1] + s]
\* the neighbour value along axis ax on side s of a cell of face d: the halo
\* value where the neighbour lies outside the block
NbValue(F0, c, ax, s, d, h) ==
    IF ax = AxisOf(d) /\ s = SignOf(d) THEN h ELSE F0[Shift(c, ax, s)]
Laplace(F0, c, ax, d, h) ==
    NbValue(F0, c, ax, 1, d, h) - 2 * F0[c] + NbValue(F0, c, ax, 0 - 1, d, h)
StencilValue(F0, c, d, h) ==
    F0[c] + Mul(Dcoef(X), Laplace(F0, c, X, d, h))
          + Mul(Dcoef(Y), Laplace(F0, c, Y, d, h))
          + Mul(Dcoef(Z), Laplace(F0, c, Z, d, h))
\* the cells one face update writes
FaceCells(d) == {CounterCell(d, FaceLayer(d), n) : n \in 0 .. (PackCount(d) - 1)}
FaceUpdate(nb, d, F, F0, THalo) ==
    IF d \in nb
    THEN LET fc == FaceCells(d)
         IN [c \in Cells |->
            IF c \in fc
            THEN StencilValue(F0, c, d, THalo[CounterOf(d, c)].v)
            ELSE F[c]]
    ELSE F
\* the six face updates in the order LEFT, RIGHT, BOTTOM, TOP, BACK, FRONT
RECURSIVE FacesUpTo(_, _, _, _, _)
FacesUpTo(nb, d, F, F0, rb) ==
    IF d < 0 THEN F ELSE FaceUpdate(nb, d, FacesUpTo(nb, d - 1, F, F0, rb), F0, rb[d])
UpdateFaces(nb, F, F0, rb) == FacesUpTo(nb, FRONT, F, F0, rb)

\* ------------------------------------------------------------- edge update
\* <<a, b>>: the edge of faces a and b, extrapolated along the axis of a
EdgeRules ==
    << <<LEFT, BOTTOM>>, <<LEFT, TOP>>, <<LEFT, BACK>>, <<LEFT, FRONT>>,
       <<RIGHT, BOTTOM>>, <<RIGHT, TOP>>, <<RIGHT, BACK>>, <<RIGHT, FRONT>>,
       <<BACK, BOTTOM>>, <<BACK, TOP>>, <<FRONT, BOTTOM>>, <<FRONT, TOP>> >>
FreeAxis(r) == CHOOSE ax \in Axes : ax # AxisOf(r[1]) /\ ax # AxisOf(r[2])
EdgeCells(r) ==
    {c \in Cells : /\ c[AxisOf(r[1]) + 1] = FaceLayer(r[1])
                   /\ c[AxisOf(r[2]) + 1] = FaceLayer(r[2])
                   /\ c[FreeAxis(r) + 1] >= 1
                   /\ c[FreeAxis(r) + 1] <= chunck[FreeAxis(r)] - 2}
\* the two cells of the rule exchanged
EdgeValueReversed(F, r, c) ==
    2 * F[Shift(c, AxisOf(r[1]), 0 - 2 * SignOf(r[1]))]
      - F[Shift(c, AxisOf(r[1]), 0 - SignOf(r[1]))]
\* T[edge] = 2.0 * T[one step in] - T[two steps in]
EdgeValue(F, r, c) ==
    2 * F[Shift(c, AxisOf(r[1]), 0 - SignOf(r[1]))]
      - F[Shift(c, AxisOf(r[1]), 0 - 2 * SignOf(r[1]))]
\* the two neighbour tests of an edge joined by "or"
EdgeUpdateEither(nb, r, F) ==
    IF r[1] \in nb \/ r[2] \in nb
    THEN LET ec == EdgeCells(r)
         IN  [c \in Cells |-> IF c \in ec THEN EdgeValue(F, r, c) ELSE F[c]]
    ELSE F
\* the edge is written only with a neighbour on both of its faces
EdgeUpdate(nb, r, F) ==
    IF r[1] \in nb /\ r[2] \in nb
    THEN LET ec == EdgeCells(r)
         IN  [c \in Cells |-> IF c \in ec THEN EdgeValue(F, r, c) ELSE F[c]]
    ELSE F
RECURSIVE EdgesUpTo(_, _, _)
EdgesUpTo(nb, n, F) ==
    IF n = 0 THEN F ELSE EdgeUpdate(nb, EdgeRules[n], EdgesUpTo(nb, n - 1, F))
UpdateEdges(nb, F) == EdgesUpTo(nb, Len(EdgeRules), F)

\* ----------------------------------------------------------- corner update
CornerRules ==
    << <<LEFT, BOTTOM, BACK>>, <<LEFT, BOTTOM, FRONT>>, <<LEFT, TOP, BACK>>,
       <<LEFT, TOP, FRONT>>, <<RIGHT, BOTTOM, BACK>>, <<RIGHT, BOTTOM, FRONT>>,
       <<RIGHT, TOP, BACK>>, <<RIGHT, TOP, FRONT>> >>
CornerCell(r) == <<FaceLayer(r[1]), FaceLayer(r[2]), FaceLayer(r[3])>>
\* the average of the cells one step in along x and y only
CornerValueTwoAxes(F, r) ==
    (F[Shift(CornerCell(r), X, 0 - SignOf(r[1]))]
       + F[Shift(CornerCell(r), Y, 0 - SignOf(r[2]))]) \div 2
\* 1.0 / 3.0 * (the three cells one step in along x, y and z)
CornerValue(F, r) ==
    (F[Shift(CornerCell(r), X, 0 - SignOf(r[1]))]
       + F[Shift(CornerCell(r), Y, 0 - SignOf(r[2]))]
       + F[Shift(CornerCell(r), Z, 0 - SignOf(r[3]))]) \div 3
CornerUpdate(nb, r, F) ==
    IF r[1] \in nb /\ r[2] \in nb /\ r[3] \in nb
    THEN [F EXCEPT ![CornerCell(r)] = CornerValue(F, r)]
    ELSE F
RECURSIVE CornersUpTo(_, _, _)
CornersUpTo(nb, n, F) ==
    IF n = 0 THEN F ELSE CornerUpdate(nb, CornerRules[n], CornersUpTo(nb, n - 1, F))
UpdateCorners(nb, F) == CornersUpTo(nb, Len(CornerRules), F)

\* ---------------------------------------------------------------- residual
\* the residual loops starting at index 0: the faces are compared too
ResidualFromZero(F, F0) ==
    MaxOf({DblMin} \cup {ResUnit * Fabs(F[c] - F0[c]) :
                            c \in {x \in Cells : \A d \in Axes : x[d + 1] <= chunck[d] - 2}})
\* res starts at numeric_limits::min() and takes every larger |T - T0| of
\* the interior cells
Residual(F, F0) == MaxOf({DblMin} \cup {ResUnit * Fabs(F[c] - F0[c]) : c \in Interior})
\* the comparison with <= for <
BelowEpsInclusive(r, n) == r * eps[2] <= eps[1] * n
\* res / norm < eps, for norm > 0
BelowEps(r, n) == r * eps[2] < eps[1] * n

\* the n-th interior cell in the order of the loops over i, j, k, from 0
InteriorCell(n) ==
    <<1 + n \div ((chunck[Y] - 2) * (chunck[Z] - 2)),
      1 + ((n \div (chunck[Z] - 2)) % (chunck[Y] - 2)),
      1 + (n % (chunck[Z] - 2))>>
\* error += fabs(T[i][j][k] - y) over the first n interior cells
RECURSIVE SumOver(_, _, _)
SumOver(F, p, n) ==
    IF n = 0 THEN 0
    ELSE SumOver(F, p, n - 1)
            + Fabs(F[InteriorCell(n - 1)] - Ramp(p, InteriorCell(n - 1)[Y + 1]))
\* the verification error of a block: the mean of |T - ramp| over its interior
\* error /= (chunck[X] - 2) * (chunck[Y] - 2) * (chunck[Z] - 2)
LocalError(F, p) ==
    SumOver(F, p, Cardinality(Interior)) \div ((chunck[X] - 2) * (chunck[Y] - 2) * (chunck[Z] - 2))

\* ------------------------------------------------------------ configuration
\* the global cell counts the runs are started with
CellChoices == {<<7, 5, 4>>, <<5, 5, 4>>}
\* the convergence thresholds the runs are started with: 1/2 and 2
EpsChoices == {<<1, 2>>, <<2, 1>>}
\* globalNorm = 1.0 and norm = 1.0, in residual units
NormOne == Scale * ResUnit

\* the state of the processes in `ranks' at the start of main, MPI being
\* initialised and the topology created
InitProcs(ranks) ==
    /\ coordinates3D = [p \in ranks |-> CartCoords(dimension3D, p)]
    /\ neighbors = [p \in ranks |-> NeighborsOf(dimension3D, p)]
    /\ pc = [p \in ranks |-> "setup"]
    /\ time = [p \in ranks |-> 0]
    /\ T = [p \in ranks |-> << >>]
    /\ T0 = [p \in ranks |-> << >>]
    /\ sendBuffer = [p \in ranks |-> << >>]
    /\ receiveBuffer = [p \in ranks |-> << >>]
    /\ rdir = [p \in ranks |-> LEFT]
    /\ res = [p \in ranks |-> 0]
    /\ norm = [p \in ranks |-> NormOne]
    /\ globalNorm = [p \in ranks |-> NormOne]
    /\ breakCondition = [p \in ranks |-> 0]
    /\ globalBreakCondition = [p \in ranks |-> 0]
    /\ finalNumIterations = [p \in ranks |-> 0]
    /\ error = [p \in ranks |-> 0]
    /\ globalError = [p \in ranks |-> 0]
    /\ chan = [pr \in ranks \X ranks |-> << >>]
    /\ contribs = [p \in ranks |-> << >>]
    /\ report = << >>
    /\ observed = [p \in ranks |-> << >>]
    /\ flags = [p \in ranks |-> << >>]

Init ==
    /\ reference = << >>
    /\ size \in 1 .. MaxProcs
    /\ argc = ExpectedArgc
    /\ numCells \in {[d \in Axes |-> n[d + 1]] : n \in CellChoices}
    /\ iterMax \in 1 .. MaxIter
    /\ eps \in EpsChoices
    /\ eager \in BOOLEAN
    /\ dimension3D = DimsOf(size)
    /\ chunck = ChunckOf(numCells, dimension3D)
    /\ InitProcs(0 .. (size - 1))

\* ------------------------------------------------------------------- setup
\* if (rank == 0) if (argc != 6) std::abort()
ArgcRejected(p) == p = 0 /\ argc # ExpectedArgc
\* argv[1] .. argv[5] are strings; with fewer words std::stod(argv[5]) is
\* handed the null pointer argv[argc] or a pointer past it
ArgsReadable == argc >= ExpectedArgc
\* the check of argc by rank 0, the reading of the arguments, the asserts on
\* the partition, the allocation of T, T0 and the buffers and the boundary
\* conditions.  Reading a missing argument either ends the process or yields
\* some value and lets it go on.
Setup(p) ==
    /\ pc[p] = "setup"
    /\ \E crash \in (IF ArgsReadable \/ ArgcRejected(p) THEN {FALSE} ELSE BOOLEAN) :
          IF ~ArgcRejected(p) /\ ~crash /\ Divisible
          THEN /\ T' = [T EXCEPT ![p] = InitialField(NbSet(p), p)]
               /\ T0' = [T0 EXCEPT ![p] = ZeroField]
               /\ sendBuffer' = [sendBuffer EXCEPT ![p] = NewBuffers(NbSet(p))]
               /\ receiveBuffer' = [receiveBuffer EXCEPT ![p] = NewBuffers(NbSet(p))]
               /\ pc' = [pc EXCEPT ![p] = "loop"]
          ELSE /\ pc' = [pc EXCEPT ![p] = "aborted"]
               /\ UNCHANGED <<fieldVars, bufVars>>
    /\ UNCHANGED <<cfgVars, time, rdir, convVars, errVars, chan, contribs, report, histVars>>

\* ----------------------------------------------------------- halo exchange
\* tagSend[index] = 100 + neighbors[index]; tagReceive[index] = 100 + rank
tagSendOwn(p, d) == TagBase + p
tagSend(p, d) == TagBase + neighbors[p][d]
tagReceive(p, d) == TagBase + p
\* the message MPI_Isend puts in flight for direction d
Message(p, d, sb) == [tag |-> tagSend(p, d), data |-> sb[d], dir |-> d]
\* the six MPI_Isend calls issued before the packs: the messages carry the
\* buffers as they were before this iteration's pack
IsendsBeforePack(p, sb, ch) ==
    [pr \in DOMAIN ch |->
        IF pr[1] = p /\ \E d \in NbSet(p) : neighbors[p][d] = pr[2]
        THEN Append(ch[pr], Message(p, CHOOSE d \in NbSet(p) : neighbors[p][d] = pr[2], sendBuffer[p]))
        ELSE ch[pr]]
\* the six MPI_Isend calls left out
IsendsNone(p, sb, ch) == ch
\* the channels after the six MPI_Isend calls of process p; a send to
\* MPI_PROC_NULL puts nothing in flight
Isends(p, sb, ch) ==
    [pr \in DOMAIN ch |->
        IF pr[1] = p /\ \E d \in NbSet(p) : neighbors[p][d] = pr[2]
        THEN Append(ch[pr], Message(p, CHOOSE d \in NbSet(p) : neighbors[p][d] = pr[2], sb))
        ELSE ch[pr]]
\* the first receive from direction d on that has a real source, 6 if none:
\* MPI_Recv from MPI_PROC_NULL returns at once and leaves the buffer alone
NextRecv(p, d) == MinOf({e \in NbSet(p) : e >= d} \cup {FRONT + 1})

\* the loop over i, j, k of the copy stopping one layer short in x
CopyFieldShort(F, F0) == [c \in Cells |-> IF c[X + 1] < chunck[X] - 1 THEN F[c] ELSE F0[c]]
\* T0[i][j][k] = T[i][j][k] for every cell of the block
CopyField(F, F0) == [c \in Cells |-> F[c]]
\* the loop condition with <= for <
LoopConditionInclusive(p) == time[p] <= iterMax
\* for (unsigned time = 0; time < iterMax; ++time)
LoopCondition(p) == time[p] < iterMax

\* the head of an iteration: T0 = T, the six packs, the six sends
StartIter(p) ==
    /\ pc[p] = "loop"
    /\ LoopCondition(p)
    /\ T0' = [T0 EXCEPT ![p] = CopyField(T[p], T0[p])]
    /\ sendBuffer' = [sendBuffer EXCEPT ![p] = PackAll(NbSet(p), p, time[p], T0'[p], sendBuffer[p])]
    /\ chan' = Isends(p, sendBuffer'[p], chan)
    /\ pc' = [pc EXCEPT ![p] = IF NextRecv(p, LEFT) > FRONT THEN "wait" ELSE "recv"]
    /\ rdir' = [rdir EXCEPT ![p] = NextRecv(p, LEFT)]
    /\ UNCHANGED <<cfgVars, time, T, receiveBuffer, convVars, errVars, contribs, report, histVars>>

\* the position in q of the first message MPI_Recv(source, tag) matches, 0 if none
FirstMatch(q, tag) ==
    IF \E n \in 1 .. Len(q) : q[n].tag = tag
    THEN MinOf({n \in 1 .. Len(q) : q[n].tag = tag})
    ELSE 0
Remove(q, n) == [m \in 1 .. (Len(q) - 1) |-> IF m < n THEN q[m] ELSE q[m + 1]]
\* the receive buffer after a message of `count' elements has arrived in it
Deliver(buf, data, count) ==
    [n \in DOMAIN buf |-> IF n < count /\ n \in DOMAIN data THEN data[n] ELSE buf[n]]

\* the blocking MPI_Recv for direction rdir[p]
Recv(p) ==
    /\ pc[p] = "recv"
    /\ LET d == rdir[p]
           src == neighbors[p][d]
           q == chan[<<src, p>>]
           n == FirstMatch(q, tagReceive(p, d))
       IN  /\ n > 0
           /\ chan' = [chan EXCEPT ![<<src, p>>] = Remove(q, n)]
           /\ receiveBuffer' = [receiveBuffer EXCEPT ![p][d] =
                   Deliver(receiveBuffer[p][d], q[n].data, MessageCount(d))]
           /\ rdir' = [rdir EXCEPT ![p] = NextRecv(p, d + 1)]
           /\ pc' = [pc EXCEPT ![p] = IF NextRecv(p, d + 1) > FRONT THEN "wait" ELSE "recv"]
    /\ UNCHANGED <<cfgVars, time, fieldVars, sendBuffer, convVars, errVars, contribs, report, histVars>>

\* MPI_Waitall left out
SendsCompleteNoWait(p) == TRUE
\* whether the sends of p are complete: at once when MPI buffers them,
\* otherwise when the neighbours have received them
SendsComplete(p) == eager \/ \A q \in Procs : chan[<<p, q>>] = << >>
\* MPI_Waitall(6, request, status)
Waitall(p) ==
    /\ pc[p] = "wait"
    /\ SendsComplete(p)
    /\ pc' = [pc EXCEPT ![p] = "update"]
    /\ UNCHANGED <<cfgVars, time, fieldVars, bufVars, rdir, convVars, errVars, chan, contribs, report, histVars>>

\* ------------------------------------------------------------------ update
\* the field after the face, the edge and the corner updates of one iteration
UpdateT(nb, F, F0, rb) == UpdateCorners(nb, UpdateEdges(nb, UpdateFaces(nb, F, F0, rb)))

\* ------------------------------------------------------------- convergence
\* the k-th collective call is complete for p when every process has entered it
Entered(p) == \A q \in Procs : Len(contribs[q]) >= Len(contribs[p])
Contributed(p) == {contribs[q][Len(contribs[p])].val : q \in Procs}
RECURSIVE SumContribs(_, _)
SumContribs(k, S) ==
    IF S = {} THEN 0
    ELSE LET q == CHOOSE x \in S : TRUE
         IN  contribs[q][k].val + SumContribs(k, S \ {q})
\* every reduction taken as a sum
ReducedBySum(p) == SumContribs(Len(contribs[p]), Procs)
\* the result of MPI_Iallreduce + MPI_Wait for the call p waits in
Reduced(p) ==
    LET k == Len(contribs[p])
    IN  CASE contribs[p][k].op = "min" -> MinOf(Contributed(p))
          [] contribs[p][k].op = "max" -> MaxOf(Contributed(p))
          [] OTHER -> SumContribs(k, Procs)
Enter(p, op, val) == [contribs EXCEPT ![p] = Append(contribs[p], [op |-> op, val |-> val])]

\* norm left at its initial value
FirstNormKeep(r, n) == n
\* if (time == 0) if (res != 0.0) norm = res
FirstNorm(r, n) == IF r # 0 THEN r ELSE n
\* the value the convergence test divides the residual by
Divisor(n, g) == n
\* if (res / norm < eps) breakCondition = true
CheckBreak(r, n, g, b) == IF BelowEps(r, Divisor(n, g)) THEN 1 ELSE b

\* the first-iteration block guarded by the rank as well
FirstIterationRankZero(p) == time[p] = 0 /\ p = 0
\* if (time == 0), the guard of norm = res and of the reduction of norm
FirstIteration(p) == time[p] = 0
\* after MPI_Waitall: the face, edge and corner updates, the residual and
\* the first collective call of the iteration (the reduction of norm in the
\* first iteration, of breakCondition in the later ones)
Update(p) ==
    /\ pc[p] = "update"
    /\ T' = [T EXCEPT ![p] = UpdateT(NbSet(p), T[p], T0[p], receiveBuffer[p])]
    /\ res' = [res EXCEPT ![p] = Residual(T'[p], T0[p])]
    /\ IF FirstIteration(p)
       THEN /\ norm' = [norm EXCEPT ![p] = FirstNorm(res'[p], norm[p])]
            /\ contribs' = Enter(p, "min", norm'[p])
            /\ pc' = [pc EXCEPT ![p] = "normwait"]
            /\ UNCHANGED <<breakCondition, observed>>
       ELSE /\ breakCondition' = [breakCondition EXCEPT ![p] =
                    CheckBreak(res'[p], norm[p], globalNorm[p], breakCondition[p])]
            /\ observed' = [observed EXCEPT ![p] =
                    Append(observed[p], BelowEps(res'[p], Divisor(norm[p], globalNorm[p])))]
            /\ contribs' = Enter(p, "max", breakCondition'[p])
            /\ pc' = [pc EXCEPT ![p] = "breakwait"]
            /\ UNCHANGED norm
    /\ UNCHANGED <<cfgVars, time, T0, bufVars, rdir, globalNorm, globalBreakCondition,
                   finalNumIterations, errVars, chan, report, flags>>

\* MPI_Wait on the reduction of norm, then the convergence test and the
\* reduction of breakCondition
NormWait(p) ==
    /\ pc[p] = "normwait"
    /\ Entered(p)
    /\ globalNorm' = [globalNorm EXCEPT ![p] = Reduced(p)]
    /\ breakCondition' = [breakCondition EXCEPT ![p] =
            CheckBreak(res[p], norm[p], globalNorm'[p], breakCondition[p])]
    /\ observed' = [observed EXCEPT ![p] =
            Append(observed[p], BelowEps(res[p], Divisor(norm[p], globalNorm'[p])))]
    /\ contribs' = Enter(p, "max", breakCondition'[p])
    /\ pc' = [pc EXCEPT ![p] = "breakwait"]
    /\ UNCHANGED <<cfgVars, time, fieldVars, bufVars, rdir, res, norm,
                   globalBreakCondition, finalNumIterations, errVars, chan, report, flags>>

\* the test of globalBreakCondition inverted
StopInverted(g) == g = 0
\* if (globalBreakCondition) break
Stop(g) == g # 0
\* MPI_Wait on the reduction of breakCondition, then break or ++time
BreakWait(p) ==
    /\ pc[p] = "breakwait"
    /\ Entered(p)
    /\ globalBreakCondition' = [globalBreakCondition EXCEPT ![p] = Reduced(p)]
    /\ IF Stop(globalBreakCondition'[p])
       THEN /\ finalNumIterations' = [finalNumIterations EXCEPT ![p] = time[p]]
            /\ pc' = [pc EXCEPT ![p] = "report"]
            /\ UNCHANGED time
       ELSE /\ time' = [time EXCEPT ![p] = time[p] + 1]
            /\ pc' = [pc EXCEPT ![p] = "loop"]
            /\ UNCHANGED finalNumIterations
    /\ flags' = [flags EXCEPT ![p] = Append(flags[p], globalBreakCondition'[p])]
    /\ UNCHANGED <<cfgVars, fieldVars, bufVars, rdir, res, norm, globalNorm, breakCondition,
                   errVars, chan, contribs, report, observed>>

\* the loop condition time < iterMax fails
LoopExit(p) ==
    /\ pc[p] = "loop"
    /\ ~LoopCondition(p)
    /\ pc' = [pc EXCEPT ![p] = "report"]
    /\ UNCHANGED <<cfgVars, time, fieldVars, bufVars, rdir, convVars, errVars, chan, contribs, report, histVars>>

\* -------------------------------------------------------------- after loop
\* what rank 0 prints: converged in finalNumIterations iterations, or not
Outcome(p) ==
    IF globalBreakCondition[p] # 0
    THEN <<"converged", finalNumIterations[p]>>
    ELSE <<"did not converge", iterMax>>
\* the report of rank 0, the local error and the MPI_Iallreduce of it
Report(p) ==
    /\ pc[p] = "report"
    /\ report' = IF p = 0 THEN Outcome(p) ELSE report
    /\ error' = [error EXCEPT ![p] = LocalError(T[p], p)]
    /\ contribs' = Enter(p, "sum", error'[p])
    /\ pc' = [pc EXCEPT ![p] = "errwait"]
    /\ UNCHANGED <<cfgVars, time, fieldVars, bufVars, rdir, convVars, globalError, chan, histVars>>

\* std::cout << "L2-norm error: " << 100 * error << " %"
PrintedError(p) == 100 * error[p]
\* MPI_Wait on the reduction of error, then the line rank 0 prints about it
ErrWait(p) ==
    /\ pc[p] = "errwait"
    /\ Entered(p)
    /\ globalError' = [globalError EXCEPT ![p] = Reduced(p)]
    /\ report' = IF p = 0 THEN Append(report, PrintedError(p)) ELSE report
    /\ pc' = [pc EXCEPT ![p] = "done"]
    /\ UNCHANGED <<cfgVars, time, fieldVars, bufVars, rdir, convVars, error, chan, contribs, histVars>>

Next ==
    \/ \E p \in Procs : Setup(p)
    \/ \E p \in Procs : StartIter(p)
    \/ \E p \in Procs : Recv(p)
    \/ \E p \in Procs : Waitall(p)
    \/ \E p \in Procs : Update(p)
    \/ \E p \in Procs : NormWait(p)
    \/ \E p \in Procs : BreakWait(p)
    \/ \E p \in Procs : LoopExit(p)
    \/ \E p \in Procs : Report(p)
    \/ \E p \in Procs : ErrWait(p)

Spec == Init /\ [][Next]_vars

\* the run does not stop while some process can take a step
FairSpec == Spec /\ WF_vars(Next)

\* ------------------------------------------- runs with any argument count
\* the numbers of command-line words the runs are started with
ArgcChoices == {5, 6, 7}
InitArgs ==
    /\ reference = << >>
    /\ size \in 1 .. MaxProcs
    /\ argc \in ArgcChoices
    /\ numCells \in {[d \in Axes |-> n[d + 1]] : n \in CellChoices}
    /\ iterMax \in 1 .. MaxIter
    /\ eps \in EpsChoices
    /\ eager \in BOOLEAN
    /\ dimension3D = DimsOf(size)
    /\ chunck = ChunckOf(numCells, dimension3D)
    /\ InitProcs(0 .. (size - 1))
\* the launcher ends the processes that still run once a process has aborted
Kill(p) ==
    /\ pc[p] \notin {"aborted", "done"}
    /\ \E q \in Procs : pc[q] = "aborted"
    /\ pc' = [pc EXCEPT ![p] = "aborted"]
    /\ UNCHANGED <<cfgVars, time, fieldVars, bufVars, rdir, convVars, errVars, chan, contribs, report, histVars>>

NextArgs ==
    \/ \E p \in Procs : Setup(p)
    \/ \E p \in Procs : StartIter(p)
    \/ \E p \in Procs : Recv(p)
    \/ \E p \in Procs : Waitall(p)
    \/ \E p \in Procs : Update(p)
    \/ \E p \in Procs : NormWait(p)
    \/ \E p \in Procs : BreakWait(p)
    \/ \E p \in Procs : LoopExit(p)
    \/ \E p \in Procs : Report(p)
    \/ \E p \in Procs : ErrWait(p)
    \/ \E p \in Procs : Kill(p)

SpecArgs == InitArgs /\ [][NextArgs]_vars

\* ------------------------------------ the same grid on one and two processes
\* The program is run on one process and then, with the same arguments, on
\* two; the final field of the first run is kept in `reference'.
CompareCells == <<5, 5, 5>>
InitCompare ==
    /\ reference = << >>
    /\ size = 1
    /\ argc = ExpectedArgc
    /\ numCells = [d \in Axes |-> CompareCells[d + 1]]
    /\ iterMax \in 1 .. MaxIter
    /\ eps \in EpsChoices
    /\ eager \in BOOLEAN
    /\ dimension3D = DimsOf(size)
    /\ chunck = ChunckOf(numCells, dimension3D)
    /\ InitProcs(0 .. (size - 1))
\* the end of the run on one process and the start of the run on two
SecondRun ==
    /\ size = 1
    /\ pc[0] = "done"
    /\ reference' = [g \in Cells |-> T[0][g]]
    /\ size' = 2
    /\ dimension3D' = DimsOf(size')
    /\ chunck' = ChunckOf(numCells, dimension3D')
    /\ coordinates3D' = [p \in 0 .. 1 |-> CartCoords(dimension3D', p)]
    /\ neighbors' = [p \in 0 .. 1 |-> NeighborsOf(dimension3D', p)]
    /\ pc' = [p \in 0 .. 1 |-> "setup"]
    /\ time' = [p \in 0 .. 1 |-> 0]
    /\ T' = [p \in 0 .. 1 |-> << >>]
    /\ T0' = [p \in 0 .. 1 |-> << >>]
    /\ sendBuffer' = [p \in 0 .. 1 |-> << >>]
    /\ receiveBuffer' = [p \in 0 .. 1 |-> << >>]
    /\ rdir' = [p \in 0 .. 1 |-> LEFT]
    /\ res' = [p \in 0 .. 1 |-> 0]
    /\ norm' = [p \in 0 .. 1 |-> NormOne]
    /\ globalNorm' = [p \in 0 .. 1 |-> NormOne]
    /\ breakCondition' = [p \in 0 .. 1 |-> 0]
    /\ globalBreakCondition' = [p \in 0 .. 1 |-> 0]
    /\ finalNumIterations' = [p \in 0 .. 1 |-> 0]
    /\ error' = [p \in 0 .. 1 |-> 0]
    /\ globalError' = [p \in 0 .. 1 |-> 0]
    /\ chan' = [pr \in (0 .. 1) \X (0 .. 1) |-> << >>]
    /\ contribs' = [p \in 0 .. 1 |-> << >>]
    /\ report' = << >>
    /\ observed' = [p \in 0 .. 1 |-> << >>]
    /\ flags' = [p \in 0 .. 1 |-> << >>]
    /\ UNCHANGED <<argc, numCells, iterMax, eps, eager>>

NextCompare ==
    \/ \E p \in Procs : Setup(p)
    \/ \E p \in Procs : StartIter(p)
    \/ \E p \in Procs : Recv(p)
    \/ \E p \in Procs : Waitall(p)
    \/ \E p \in Procs : Update(p)
    \/ \E p \in Procs : NormWait(p)
    \/ \E p \in Procs : BreakWait(p)
    \/ \E p \in Procs : LoopExit(p)
    \/ \E p \in Procs : Report(p)
    \/ \E p \in Procs : ErrWait(p)
    \/ SecondRun

SpecCompare == InitCompare /\ [][NextCompare]_vars

\* ---------------------------------------------- the long run on one process
\* bin/HeatEquation3D 5 5 5 200 1e-6 on one process
LongRun == [cells |-> <<5, 5, 5>>, iterMax |-> 200, eps |-> <<1, 1000000>>]
InitLong ==
    /\ reference = << >>
    /\ size = 1
    /\ argc = ExpectedArgc
    /\ numCells = [d \in Axes |-> LongRun.cells[d + 1]]
    /\ iterMax = LongRun.iterMax
    /\ eps = LongRun.eps
    /\ eager \in BOOLEAN
    /\ dimension3D = DimsOf(size)
    /\ chunck = ChunckOf(numCells, dimension3D)
    /\ InitProcs(0 .. (size - 1))

\* the steps of a process without neighbours: it receives from MPI_PROC_NULL only
NextLong ==
    \/ \E p \in Procs : Setup(p)
    \/ \E p \in Procs : StartIter(p)
    \/ \E p \in Procs : Waitall(p)
    \/ \E p \in Procs : Update(p)
    \/ \E p \in Procs : NormWait(p)
    \/ \E p \in Procs : BreakWait(p)
    \/ \E p \in Procs : LoopExit(p)
    \/ \E p \in Procs : Report(p)
    \/ \E p \in Procs : ErrWait(p)

SpecLong == InitLong /\ [][NextLong]_vars

\* -------------------------------------------------- one block of a large run
\* One process of a run on 8 or 27 processes, where blocks have neighbours in
\* z, and edges and corners with neighbours on all their faces.  The other
\* processes are not represented: what they send is what their pack produces
\* (cells of the layer next to their face, which no update writes), and the
\* result of the reduction of breakCondition is the own flag, the residual
\* being taken over cells no process writes.
BlockSizes == {8, 27}
BlockCells == {<<7, 7, 7>>, <<13, 7, 7>>}

InitBlock ==
    /\ reference = << >>
    /\ size \in BlockSizes
    /\ argc = ExpectedArgc
    /\ numCells \in {[d \in Axes |-> n[d + 1]] : n \in BlockCells}
    /\ iterMax \in 1 .. MaxIter
    /\ eps \in EpsChoices
    /\ eager = TRUE
    /\ dimension3D = DimsOf(size)
    /\ chunck = ChunckOf(numCells, dimension3D)
    /\ \E r \in 0 .. (size - 1) : InitProcs({r})

\* the buffer the neighbour of p in direction d packs and sends in iteration `it'
NeighbourData(p, d, it) ==
    [n \in 0 .. (MessageCount(d) - 1) |->
        IF n < PackCount(d)
        THEN [v |-> 0,
              org |-> [rank |-> neighbors[p][d],
                       cell |-> CounterCell(d, SendLayer(Opposite(d)), n),
                       it |-> it]]
        ELSE EmptySlot]
\* the six MPI_Recv calls and MPI_Waitall
HaloArrives(p) ==
    /\ pc[p] \in {"recv", "wait"}
    /\ receiveBuffer' = [receiveBuffer EXCEPT ![p] =
            [d \in Directions |->
                IF d \in NbSet(p)
                THEN Deliver(receiveBuffer[p][d], NeighbourData(p, d, time[p]), MessageCount(d))
                ELSE receiveBuffer[p][d]]]
    /\ rdir' = [rdir EXCEPT ![p] = FRONT + 1]
    /\ pc' = [pc EXCEPT ![p] = "faces"]
    /\ UNCHANGED <<cfgVars, time, fieldVars, sendBuffer, convVars, errVars, chan, contribs, report, histVars>>
\* the six face updates
Faces(p) ==
    /\ pc[p] = "faces"
    /\ T' = [T EXCEPT ![p] = UpdateFaces(NbSet(p), T[p], T0[p], receiveBuffer[p])]
    /\ pc' = [pc EXCEPT ![p] = "edges"]
    /\ UNCHANGED <<cfgVars, time, T0, bufVars, rdir, convVars, errVars, chan, contribs, report, histVars>>
\* the twelve edge updates
Edges(p) ==
    /\ pc[p] = "edges"
    /\ T' = [T EXCEPT ![p] = UpdateEdges(NbSet(p), T[p])]
    /\ pc' = [pc EXCEPT ![p] = "corners"]
    /\ UNCHANGED <<cfgVars, time, T0, bufVars, rdir, convVars, errVars, chan, contribs, report, histVars>>
\* the eight corner updates
Corners(p) ==
    /\ pc[p] = "corners"
    /\ T' = [T EXCEPT ![p] = UpdateCorners(NbSet(p), T[p])]
    /\ pc' = [pc EXCEPT ![p] = "check"]
    /\ UNCHANGED <<cfgVars, time, T0, bufVars, rdir, convVars, errVars, chan, contribs, report, histVars>>
\* the residual, the norm, the convergence test, the two reductions and the
\* break or ++time
Check(p) ==
    /\ pc[p] = "check"
    /\ res' = [res EXCEPT ![p] = Residual(T[p], T0[p])]
    /\ norm' = [norm EXCEPT ![p] = IF FirstIteration(p) THEN FirstNorm(res'[p], norm[p]) ELSE norm[p]]
    /\ globalNorm' = [globalNorm EXCEPT ![p] = IF FirstIteration(p) THEN norm'[p] ELSE globalNorm[p]]
    /\ breakCondition' = [breakCondition EXCEPT ![p] =
            CheckBreak(res'[p], norm'[p], globalNorm'[p], breakCondition[p])]
    /\ globalBreakCondition' = [globalBreakCondition EXCEPT ![p] = breakCondition'[p]]
    /\ observed' = [observed EXCEPT ![p] =
            Append(observed[p], BelowEps(res'[p], Divisor(norm'[p], globalNorm'[p])))]
    /\ flags' = [flags EXCEPT ![p] = Append(flags[p], globalBreakCondition'[p])]
    /\ IF Stop(globalBreakCondition'[p])
       THEN /\ finalNumIterations' = [finalNumIterations EXCEPT ![p] = time[p]]
            /\ pc' = [pc EXCEPT ![p] = "report"]
            /\ UNCHANGED time
       ELSE /\ time' = [time EXCEPT ![p] = time[p] + 1]
            /\ pc' = [pc EXCEPT ![p] = "loop"]
            /\ UNCHANGED finalNumIterations
    /\ UNCHANGED <<cfgVars, fieldVars, bufVars, rdir, errVars, chan, contribs, report>>

NextBlock ==
    \/ \E p \in Procs : Setup(p)
    \/ \E p \in Procs : StartIter(p)
    \/ \E p \in Procs : HaloArrives(p)
    \/ \E p \in Procs : Faces(p)
    \/ \E p \in Procs : Edges(p)
    \/ \E p \in Procs : Corners(p)
    \/ \E p \in Procs : Check(p)
    \/ \E p \in Procs : LoopExit(p)

SpecBlock == InitBlock /\ [][NextBlock]_vars

\* ------------------------------------------------- blocks of two cells
\* Runs whose blocks have 2 cells on an axis (3 global cells over 2
\* processes).  An edge rule then reads T two steps in at index 2 or -1,
\* outside the extent 0 .. 1: the read yields some value or ends the process.
\* The runs are of one iteration; the steps after the loop are not represented.
SmallSizes == {2, 4}
SmallCells == {<<3, 3, 4>>, <<3, 5, 4>>, <<5, 3, 4>>}
\* the values a read outside the extent of T may yield
Garbage == {0, Scale}

InitSmall ==
    /\ reference = << >>
    /\ size \in SmallSizes
    /\ argc = ExpectedArgc
    /\ numCells \in {[d \in Axes |-> n[d + 1]] : n \in SmallCells}
    /\ iterMax = 1
    /\ eps \in EpsChoices
    /\ eager \in BOOLEAN
    /\ dimension3D = DimsOf(size)
    /\ chunck = ChunckOf(numCells, dimension3D)
    /\ InitProcs(0 .. (size - 1))

\* T[x], or g where x lies outside the extent of T
ReadCell(F, x, g) == IF x \in Cells THEN F[x] ELSE g
\* the twelve edge rules, a read outside the extent yielding g
RECURSIVE EdgesRead(_, _, _, _)
EdgesRead(nb, n, F, g) ==
    IF n = 0 THEN F
    ELSE LET r == EdgeRules[n]
             G == EdgesRead(nb, n - 1, F, g)
         IN  IF r[1] \in nb /\ r[2] \in nb
             THEN [c \in Cells |->
                     IF c \in EdgeCells(r)
                     THEN 2 * ReadCell(G, Shift(c, AxisOf(r[1]), 0 - SignOf(r[1])), g)
                            - ReadCell(G, Shift(c, AxisOf(r[1]), 0 - 2 * SignOf(r[1])), g)
                     ELSE G[c]]
             ELSE G
\* the edge rules of p that read outside the extent of T
ReadsOutside(p) ==
    {n \in 1 .. Len(EdgeRules) :
        /\ EdgeRules[n][1] \in NbSet(p) /\ EdgeRules[n][2] \in NbSet(p)
        /\ \E c \in EdgeCells(EdgeRules[n]) :
              \/ Shift(c, AxisOf(EdgeRules[n][1]), 0 - SignOf(EdgeRules[n][1])) \notin Cells
              \/ Shift(c, AxisOf(EdgeRules[n][1]), 0 - 2 * SignOf(EdgeRules[n][1])) \notin Cells}
\* the update step, the residual and the first collective call of the
\* iteration, as in Update, with reads outside the extent
UpdateSmall(p) ==
    /\ pc[p] = "update"
    /\ \E g \in Garbage : \E crash \in (IF ReadsOutside(p) = {} THEN {FALSE} ELSE BOOLEAN) :
          IF crash
          THEN /\ pc' = [pc EXCEPT ![p] = "aborted"]
               /\ UNCHANGED <<T, res, norm, breakCondition, observed, contribs>>
          ELSE /\ T' = [T EXCEPT ![p] =
                        UpdateCorners(NbSet(p),
                            EdgesRead(NbSet(p), Len(EdgeRules),
                                UpdateFaces(NbSet(p), T[p], T0[p], receiveBuffer[p]), g))]
               /\ res' = [res EXCEPT ![p] = Residual(T'[p], T0[p])]
               /\ IF FirstIteration(p)
                  THEN /\ norm' = [norm EXCEPT ![p] = FirstNorm(res'[p], norm[p])]
                       /\ contribs' = Enter(p, "min", norm'[p])
                       /\ pc' = [pc EXCEPT ![p] = "normwait"]
                       /\ UNCHANGED <<breakCondition, observed>>
                  ELSE /\ breakCondition' = [breakCondition EXCEPT ![p] =
                               CheckBreak(res'[p], norm[p], globalNorm[p], breakCondition[p])]
                       /\ observed' = [observed EXCEPT ![p] =
                               Append(observed[p], BelowEps(res'[p], Divisor(norm[p], globalNorm[p])))]
                       /\ contribs' = Enter(p, "max", breakCondition'[p])
                       /\ pc' = [pc EXCEPT ![p] = "breakwait"]
                       /\ UNCHANGED norm
    /\ UNCHANGED <<cfgVars, time, T0, bufVars, rdir, globalNorm, globalBreakCondition,
                   finalNumIterations, errVars, chan, report, flags>>

NextSmall ==
    \/ \E p \in Procs : Setup(p)
    \/ \E p \in Procs : StartIter(p)
    \/ \E p \in Procs : Recv(p)
    \/ \E p \in Procs : Waitall(p)
    \/ \E p \in Procs : UpdateSmall(p)
    \/ \E p \in Procs : NormWait(p)
    \/ \E p \in Procs : BreakWait(p)
    \/ \E p \in Procs : LoopExit(p)
    \/ \E p \in Procs : Kill(p)

SpecSmall == InitSmall /\ [][NextSmall]_vars

\* ------------------------------------------------ a grid of 3 x 2 x 1 blocks
\* bin/HeatEquation3D 10 5 4 1 eps on six processes: the blocks in the middle
\* of the x axis have a neighbour on both sides in x and one in y
GridRun == [size |-> 6, cells |-> <<10, 5, 4>>, iterMax |-> 1]
InitGrid ==
    /\ reference = << >>
    /\ size = GridRun.size
    /\ argc = ExpectedArgc
    /\ numCells = [d \in Axes |-> GridRun.cells[d + 1]]
    /\ iterMax = GridRun.iterMax
    /\ eps \in EpsChoices
    /\ eager = TRUE
    /\ dimension3D = DimsOf(size)
    /\ chunck = ChunckOf(numCells, dimension3D)
    /\ InitProcs(0 .. (size - 1))

SpecGrid == InitGrid /\ [][Next]_vars

\* ------------------------------------------ runs with a threshold of at most 1
\* the thresholds 1 and 1/2, the runs otherwise as in Init
ThresholdChoices == {<<1, 1>>, <<1, 2>>}
InitThreshold ==
    /\ reference = << >>
    /\ size \in 1 .. MaxProcs
    /\ argc = ExpectedArgc
    /\ numCells \in {[d \in Axes |-> n[d + 1]] : n \in CellChoices}
    /\ iterMax \in 1 .. MaxIter
    /\ eps \in ThresholdChoices
    /\ eager \in BOOLEAN
    /\ dimension3D = DimsOf(size)
    /\ chunck = ChunckOf(numCells, dimension3D)
    /\ InitProcs(0 .. (size - 1))

SpecThreshold == InitThreshold /\ [][Next]_vars /\ WF_vars(Next)

\* =================================================================== claims
PostLoop == {"report", "errwait", "done"}
InIteration == {"recv", "wait", "update", "normwait", "breakwait"}
\* p left the time loop through break
LeftByBreak(p) == pc[p] \in PostLoop /\ time[p] < iterMax
\* p has made the updates of its current iteration
Updated(p) == pc[p] \in {"normwait", "breakwait"}

C2_HaloOfSameIteration ==
    \A p \in Procs :
        pc[p] = "update" =>
            \A d \in NbSet(p) :
                LET q == neighbors[p][d]
                IN  /\ time[q] = time[p]
                    /\ pc[q] \notin {"setup", "loop"}
                    /\ \A n \in 0 .. (PackCount(d) - 1) :
                          LET s == receiveBuffer[p][d][n]
                          IN  /\ s.org.rank = q
                              /\ s.org.it = time[p]
                              /\ s.v = T0[q][s.org.cell]
C2_Witness ==
    \E p \in Procs : pc[p] = "update" /\ time[p] >= 1 /\ NbSet(p) # {}

\* every send of p has been matched by its receiver, or MPI buffered it
SendsMatched(p) == eager \/ \A q \in Procs : chan[<<p, q>>] = << >>
\* every receive of the iteration has completed: nothing addressed to p is in
\* flight and every receive buffer holds the data of this iteration
ReceivesComplete(p) ==
    \A d \in NbSet(p) :
        /\ chan[<<neighbors[p][d], p>>] = << >>
        /\ \A n \in 0 .. (PackCount(d) - 1) :
              /\ receiveBuffer[p][d][n].org.rank = neighbors[p][d]
              /\ receiveBuffer[p][d][n].org.it = time[p]
\* C3: the field is written inside the loop only by the update step, and that
\* step starts only when all receives of the iteration have completed and the
\* wait on the sends has returned.
C3_UpdateAfterFullHalo ==
    [][\A p \in Procs :
          /\ (pc[p] # "setup" /\ T'[p] # T[p]) => pc[p] = "update"
          /\ (pc[p] = "update" /\ pc'[p] # "update") => (ReceivesComplete(p) /\ SendsMatched(p))]_vars
C3_Witness ==
    \E p \in Procs : Updated(p) /\ ~eager /\ Cardinality(NbSet(p)) >= 2 /\ T[p] # T0[p]

\* C4: for every shared face and transverse index pair (a, b) the slot the
\* receiver reads for its face cell (a, b) holds the sender's T0 value at
\* (a, b) in the layer one step inside the sender's facing side, and as many
\* elements were packed as are consumed.
C4_HaloRoundTrip ==
    \A p \in Procs :
        pc[p] = "update" =>
            \A d \in NbSet(p) :
                LET q == neighbors[p][d]
                    rb == receiveBuffer[p][d]
                IN  /\ \A a \in 1 .. OuterCount(d), b \in 1 .. InnerCount(d) :
                          LET s == rb[CounterOf(d, MkCell(d, FaceLayer(d), a, b))]
                          IN  /\ s.org.rank = q
                              /\ s.org.cell = MkCell(d, SendLayer(Opposite(d)), a, b)
                              /\ s.v = T0[q][MkCell(d, SendLayer(Opposite(d)), a, b)]
                    /\ Cardinality({n \in DOMAIN rb : rb[n].org # NoOrigin})
                          = OuterCount(d) * InnerCount(d)
C4_Witness ==
    \E p \in Procs :
        /\ pc[p] = "update"
        /\ \E d \in NbSet(p) : OuterCount(d) >= 2 /\ InnerCount(d) >= 2 /\ OuterCount(d) # InnerCount(d)

\* the explicit stencil of a cell whose six neighbours lie inside the block
FullStencil(F0, c) ==
    F0[c] + Mul(Dcoef(X), F0[Shift(c, X, 1)] - 2 * F0[c] + F0[Shift(c, X, 0 - 1)])
          + Mul(Dcoef(Y), F0[Shift(c, Y, 1)] - 2 * F0[c] + F0[Shift(c, Y, 0 - 1)])
          + Mul(Dcoef(Z), F0[Shift(c, Z, 1)] - 2 * F0[c] + F0[Shift(c, Z, 0 - 1)])
\* C5: after the updates of an iteration every interior cell of every process
\* holds the explicit stencil value computed from T0.
C5_InteriorStencil ==
    \A p \in Procs : Updated(p) => \A c \in Interior : T[p][c] = FullStencil(T0[p], c)

Executed(p) == Len(flags[p])
\* C7: all processes get the same stop flag in every iteration, enter the same
\* collective calls in the same order (one min, one max per executed
\* iteration, one sum), leave the loop in the same iteration, and no process
\* waits in a call the others never enter.
C7_CollectivesAgree ==
    /\ \A p, q \in Procs :
          /\ \A k \in 1 .. Len(flags[p]) : k <= Len(flags[q]) => flags[p][k] = flags[q][k]
          /\ \A k \in 1 .. Len(contribs[p]) :
                k <= Len(contribs[q]) => contribs[p][k].op = contribs[q][k].op
          /\ (pc[p] \in PostLoop /\ pc[q] \in PostLoop) =>
                (time[p] = time[q] /\ Executed(p) = Executed(q))
    /\ \A p \in Procs :
          pc[p] = "done" =>
              /\ Len(contribs[p]) = Executed(p) + 2
              /\ contribs[p][1].op = "min"
              /\ \A k \in 2 .. (Executed(p) + 1) : contribs[p][k].op = "max"
              /\ contribs[p][Executed(p) + 2].op = "sum"
    /\ (\A p \in Procs : pc[p] \in {"done", "aborted"}) \/ ENABLED Next
C7_Witness ==
    /\ size >= 4
    /\ \A p \in Procs : pc[p] = "done" /\ Executed(p) >= 2

\* the outcomes of a run, from what p saw
Converged(p) == Executed(p) >= 1 /\ flags[p][Executed(p)] # 0
NotConverged(p) == Executed(p) = iterMax /\ \A k \in 1 .. Executed(p) : flags[p][k] = 0
\* C8: a run with a valid partition ends, after at most iterMax iterations, in
\* exactly one of CONVERGED (the stop flag became true, in the last executed
\* iteration) and NOT_CONVERGED (iterMax iterations, the flag never true), the
\* same on every process; rank 0 reports that outcome, and the field is not
\* written after the loop.
C8_TerminatesWithOneOutcome ==
    /\ (Divisible => <>(\A p \in Procs : pc[p] = "done"))
    /\ [](\A p \in Procs :
            /\ Executed(p) <= iterMax
            /\ \A k \in 1 .. (Executed(p) - 1) : flags[p][k] = 0
            /\ pc[p] \in PostLoop =>
                  /\ Converged(p) # NotConverged(p)
                  /\ Converged(p) <=> globalBreakCondition[p] # 0
                  /\ \A q \in Procs : pc[q] \in PostLoop => (Converged(q) <=> Converged(p))
            /\ (p = 0 /\ pc[p] \in {"errwait", "done"}) =>
                  /\ Converged(p) <=> report[1] = "converged"
                  /\ NotConverged(p) <=> report[1] = "did not converge")
    /\ [][\A p \in Procs : pc[p] \in PostLoop => T'[p] = T[p]]_vars
C8_Witness ==
    /\ size >= 2
    /\ \A p \in Procs : pc[p] = "done" /\ NotConverged(p)
    /\ \E p \in Procs : T[p] # T0[p]

\* the cells of the face of the block in direction d, its edges and corners included
WholeFace(d) == {c \in Cells : c[AxisOf(d) + 1] = FaceLayer(d)}
\* C9: every cell of a face without a neighbour, edge and corner cells
\* included, holds after each of the face, edge and corner updates of every
\* iteration the value the boundary conditions gave it before the loop.
C9_BoundaryFacesKept ==
    \A p \in Procs :
        pc[p] \notin {"setup", "aborted"} =>
            \A d \in Directions \ NbSet(p) :
                \A c \in WholeFace(d) : T[p][c] = InitialField(NbSet(p), p)[c]
C9_Witness ==
    \E p \in Procs :
        /\ pc[p] = "check"
        /\ time[p] >= 1
        /\ Cardinality(NbSet(p)) = 3
        /\ \E r \in 1 .. Len(CornerRules) :
              /\ \A n \in 1 .. 3 : CornerRules[r][n] \in NbSet(p)
              /\ T[p][CornerCell(CornerRules[r])] # T0[p][CornerCell(CornerRules[r])]

\* C10: T0 is written inside the loop only at the head of an iteration, where
\* it becomes a cell-by-cell copy of T; every other step leaves it alone.
C10_T0CopiedThenStable ==
    [][\A p \in Procs :
          /\ (pc[p] = "loop" /\ pc'[p] \in InIteration) =>
                (DOMAIN T0'[p] = Cells /\ \A c \in Cells : T0'[p][c] = T[p][c])
          /\ (pc[p] # "setup" /\ T0'[p] # T0[p]) => pc[p] = "loop"]_vars
C10_Witness ==
    \E p \in Procs : Updated(p) /\ time[p] >= 1 /\ T[p] # T0[p]

\* the partition passes the three divisibility tests
ValidPartition == \A d \in Axes : (numCells[d] - 1) % dimension3D[d] = 0
\* the cells of the whole domain that lie on none of its six faces
GlobalInterior ==
    {g \in (0 .. (numCells[X] - 1)) \X (0 .. (numCells[Y] - 1)) \X (0 .. (numCells[Z] - 1)) :
        \A d \in Axes : g[d + 1] >= 1 /\ g[d + 1] <= numCells[d] - 2}
\* C11: for a valid partition the local interior cells of all processes (the
\* cells the residual and error loops range over) are as many as the interior
\* cells of the whole domain.
C11_InteriorPartition ==
    (ValidPartition /\ \A p \in Procs : pc[p] \notin {"setup", "aborted"}) =>
        Cardinality(Procs \X Interior) = Cardinality(GlobalInterior)

\* C12: for a valid partition and every axis the global indices of the local
\* indices of all processes are exactly 0 .. numCells - 1, and two different
\* pairs (process coordinate, local index) meet in one global index only on
\* the plane two adjacent processes share.
C12_IndexMapping ==
    ValidPartition =>
        \A d \in Axes :
            /\ {GlobalIndex(p, d, l) : p \in Procs, l \in 0 .. (chunck[d] - 1)}
                  = 0 .. (numCells[d] - 1)
            /\ \A p, q \in Procs : \A l, m \in 0 .. (chunck[d] - 1) :
                  (/\ GlobalIndex(p, d, l) = GlobalIndex(q, d, m)
                   /\ <<coordinates3D[p][d], l>> # <<coordinates3D[q][d], m>>) =>
                      \/ (coordinates3D[q][d] = coordinates3D[p][d] + 1 /\ l = chunck[d] - 1 /\ m = 0)
                      \/ (coordinates3D[p][d] = coordinates3D[q][d] + 1 /\ m = chunck[d] - 1 /\ l = 0)
C12_Witness ==
    /\ ValidPartition
    /\ size >= 4
    /\ \A p \in Procs : pc[p] = "done"
    /\ \E p, q \in Procs :
          p # q /\ GlobalIndex(p, Y, chunck[Y] - 1) = GlobalIndex(q, Y, 0)

\* C13: with a partition that fails a divisibility test every process stops
\* in setup: no field or buffer is allocated, no message is sent, no
\* reduction is entered and no iteration is started.
C13_NoWorkOnBadPartition ==
    ~ValidPartition =>
        \A p \in Procs :
            /\ pc[p] \in {"setup", "aborted"}
            /\ T[p] = << >> /\ T0[p] = << >>
            /\ sendBuffer[p] = << >> /\ receiveBuffer[p] = << >>
            /\ time[p] = 0 /\ contribs[p] = << >>
            /\ \A q \in Procs : chan[<<p, q>>] = << >>
C13_Witness ==
    /\ ~ValidPartition
    /\ size >= 2
    /\ \A p \in Procs : pc[p] = "aborted"

\* C14: started with a wrong number of arguments, every process stops in
\* setup: none reads an argument, allocates a field or reaches the time loop.
C14_WrongArgcStopsAll ==
    argc # ExpectedArgc =>
        \A p \in Procs : pc[p] \in {"setup", "aborted"} /\ T[p] = << >>

\* C15: when the run of the 5x5x5 grid on two processes has ended, every cell
\* of either process holds the value the run on one process left at the same
\* global coordinate, the cells of the shared plane included.
C15_SameFieldAsSingleProcess ==
    (size = 2 /\ \A p \in Procs : pc[p] = "done") =>
        \A p \in Procs : \A c \in Cells : T[p][c] = reference[GlobalCell(p, c)]

\* the field does not decrease along y
MonotonicY(F) ==
    \A c \in Cells : c[Y + 1] + 1 <= chunck[Y] - 1 => F[c] <= F[Shift(c, Y, 1)]
\* the field is its own mirror image along axis ax
Symmetric(F, ax) ==
    \A c \in Cells : F[c] = F[[c EXCEPT ![ax + 1] = chunck[ax] - 1 - c[ax + 1]]]
\* C16: the run of the 5x5x5 grid on one process with at most 200 iterations
\* and eps = 1e-6 ends converged, with a field monotonic along y and
\* symmetric along x and z.
C16_ConvergedMonotonicSymmetric ==
    (\A p \in Procs : pc[p] = "done") =>
        /\ report[1] = "converged"
        /\ \A p \in Procs : MonotonicY(T[p]) /\ Symmetric(T[p], X) /\ Symmetric(T[p], Z)
\* every process has finished setup and none has started the first iteration
BeforeFirstIteration == \A p \in Procs : pc[p] = "loop" /\ time[p] = 0
\* local cell c of process p lies on the face of the whole domain in direction d
OnPhysicalFace(p, c, d) ==
    GlobalIndex(p, AxisOf(d), c[AxisOf(d) + 1]) = (IF d % 2 = 0 THEN 0 ELSE numCells[AxisOf(d)] - 1)
\* the values found on the face of the whole domain in direction d
FaceValues(d) == {T[pcell[1]][pcell[2]] : pcell \in {x \in Procs \X Cells : OnPhysicalFace(x[1], x[2], d)}}
\* the faces of the domain that hold 1.0 in every cell
OneFaces == {d \in Directions : FaceValues(d) = {Scale}}
\* the faces of the domain that hold the ramp y * spacing[Y] in every cell and
\* are not constant
RampFaces ==
    {d \in Directions :
        /\ \A p \in Procs : \A c \in Cells :
              OnPhysicalFace(p, c, d) => T[p][c] = GlobalIndex(p, Y, c[Y + 1]) * spacing[Y]
        /\ Cardinality(FaceValues(d)) > 1}
\* the cells on none of the faces counted in OneFaces and RampFaces hold 0.0
RestIsZero ==
    LET faces == OneFaces \cup RampFaces
    IN  \A p \in Procs : \A c \in Cells :
            (\A d \in faces : ~OnPhysicalFace(p, c, d)) => T[p][c] = 0
\* the initial value at a cell of the whole domain: the ramp on the four side
\* faces, 1.0 elsewhere on the top face, 0.0 everywhere else
PolicyValue(g) ==
    IF g[X + 1] \in {0, numCells[X] - 1} \/ g[Z + 1] \in {0, numCells[Z] - 1}
    THEN g[Y + 1] * spacing[Y]
    ELSE IF g[Y + 1] = numCells[Y] - 1 THEN Scale ELSE 0
\* C17 as stated: before the first iteration exactly one face of the domain
\* holds 1.0, exactly three hold the ramp, and every other cell is 0.0.
C17_OneFaceThreeRamps ==
    (ValidPartition /\ BeforeFirstIteration) =>
        /\ Cardinality(OneFaces) = 1
        /\ Cardinality(RampFaces) = 3
        /\ RestIsZero
\* C17, amended: before the first iteration exactly one face of the domain
\* (TOP) holds 1.0, exactly four (LEFT, RIGHT, BACK, FRONT) hold the ramp in
\* y, every other cell is 0.0, and the value of every local cell is a function
\* of its global position alone.
C17_OneFaceFourRamps ==
    (ValidPartition /\ BeforeFirstIteration) =>
        /\ OneFaces = {TOP}
        /\ RampFaces = {LEFT, RIGHT, BACK, FRONT}
        /\ RestIsZero
        /\ \A p \in Procs : \A c \in Cells : T[p][c] = PolicyValue(GlobalCell(p, c))
C17_Witness ==
    /\ ValidPartition
    /\ BeforeFirstIteration
    /\ size >= 4
    /\ \E p \in Procs : TOP \in NbSet(p)

\* the local flag process q put into the stop reduction of its n-th iteration
LocalFlag(q, n) == contribs[q][n + 1].val
\* C18: the stop flag a process gets in an iteration is the maximum of the
\* local flags all processes put into the reduction of that iteration; a
\* local flag is 0 or 1, is 1 only if the process found res / norm < eps in
\* that iteration or an earlier one, and once 1 stays 1.
C18_StopFlagIsOrOfLocalFlags ==
    /\ \A p \in Procs : \A n \in 1 .. Len(flags[p]) :
          /\ \A q \in Procs : Len(contribs[q]) >= n + 1 /\ contribs[q][n + 1].op = "max"
          /\ flags[p][n] = MaxOf({LocalFlag(q, n) : q \in Procs})
    /\ \A q \in Procs : \A n \in 1 .. (Len(contribs[q]) - 1) :
          contribs[q][n + 1].op = "max" =>
              /\ LocalFlag(q, n) \in {0, 1}
              /\ LocalFlag(q, n) = 1 => \E m \in 1 .. n : m <= Len(observed[q]) /\ observed[q][m]
              /\ (n >= 2 /\ LocalFlag(q, n - 1) = 1) => LocalFlag(q, n) = 1
C18_Witness ==
    /\ size >= 3
    /\ \A p \in Procs : pc[p] = "done"
    /\ \A p \in Procs : Len(flags[p]) >= 1 /\ flags[p][Len(flags[p])] = 1
    /\ \E q \in Procs : observed[q][1]

\* the in-flight messages addressed to p that a receive of p from direction d matches
Matching(p, d) ==
    {n \in 1 .. Len(chan[<<neighbors[p][d], p>>]) :
        chan[<<neighbors[p][d], p>>][n].tag = tagReceive(p, d)}
\* C19: the tag on the message a process sends in direction d is the tag its
\* neighbour expects from the opposite direction; two messages in flight to
\* the same process never have the same source and tag; a receive matches at
\* most one message, the one its neighbour in that direction sent towards it.
C19_TagsIdentifyMessages ==
    /\ \A p \in Procs : \A d \in NbSet(p) :
          /\ neighbors[neighbors[p][d]][Opposite(d)] = p
          /\ tagSend(p, d) = tagReceive(neighbors[p][d], Opposite(d))
    /\ \A pr \in DOMAIN chan : \A n, m \in 1 .. Len(chan[pr]) :
          chan[pr][n].tag = chan[pr][m].tag => n = m
    /\ \A p \in Procs : \A d \in NbSet(p) :
          /\ Cardinality(Matching(p, d)) <= 1
          /\ \A n \in Matching(p, d) : chan[<<neighbors[p][d], p>>][n].dir = Opposite(d)
C19_Witness ==
    \E p \in Procs :
        /\ time[p] >= 1
        /\ Cardinality({q \in Procs : chan[<<q, p>>] # << >>}) >= 2

\* the receive buffers of p with other contents in the placeholders
Scrambled(p) ==
    [d \in Directions |->
        IF d \in NbSet(p) THEN receiveBuffer[p][d]
        ELSE [n \in DOMAIN receiveBuffer[p][d] |-> [v |-> Scale, org |-> NoOrigin]]]
\* C20: in a direction without neighbour the 1-element send and receive
\* buffers are never written, no message is in flight, no receive is waited
\* for, the update does not depend on the placeholder, and a process without
\* any neighbour passes the exchange without waiting.
C20_NoNeighbourNoExchange ==
    \A p \in Procs :
        pc[p] \notin {"setup", "aborted"} =>
            /\ \A d \in Directions \ NbSet(p) :
                  /\ sendBuffer[p][d] = [n \in 0 .. 0 |-> EmptySlot]
                  /\ receiveBuffer[p][d] = [n \in 0 .. 0 |-> EmptySlot]
                  /\ \A q \in Procs : \A n \in 1 .. Len(chan[<<p, q>>]) : chan[<<p, q>>][n].dir # d
                  /\ pc[p] = "recv" => rdir[p] # d
            /\ pc[p] = "update" =>
                  UpdateT(NbSet(p), T[p], T0[p], receiveBuffer[p])
                      = UpdateT(NbSet(p), T[p], T0[p], Scrambled(p))
            /\ NbSet(p) = {} => (pc[p] # "recv" /\ (pc[p] = "wait" => SendsComplete(p)))
C20_Witness ==
    /\ \E p \in Procs : pc[p] = "update" /\ time[p] >= 1 /\ NbSet(p) # {} /\ Cardinality(NbSet(p)) <= 2
    /\ size >= 3

\* the edge and corner rules whose neighbour tests hold for p
ActiveEdges(p) ==
    {n \in 1 .. Len(EdgeRules) : EdgeRules[n][1] \in NbSet(p) /\ EdgeRules[n][2] \in NbSet(p)}
ActiveCorners(p) ==
    {n \in 1 .. Len(CornerRules) : \A m \in 1 .. 3 : CornerRules[n][m] \in NbSet(p)}
\* the two cells the rule of edge r reads for its cell c
EdgeReads(r, c) ==
    {Shift(c, AxisOf(r[1]), 0 - SignOf(r[1])), Shift(c, AxisOf(r[1]), 0 - 2 * SignOf(r[1]))}
\* the three cells the rule of corner r reads
CornerReads(r) ==
    {Shift(CornerCell(r), X, 0 - SignOf(r[1])),
     Shift(CornerCell(r), Y, 0 - SignOf(r[2])),
     Shift(CornerCell(r), Z, 0 - SignOf(r[3]))}
\* the value the update of face d gives cell c in the current iteration
FaceValue(p, d, c) == StencilValue(T0[p], c, d, receiveBuffer[p][d][CounterOf(d, c)].v)
\* the cells the edge rules and the corner rules of p write
EdgesWritten(p) == UNION {EdgeCells(EdgeRules[n]) : n \in ActiveEdges(p)}
CornersWritten(p) == {CornerCell(CornerRules[n]) : n \in ActiveCorners(p)}
\* C21: in every iteration no edge cell is written before the six face updates
\* are done and no corner cell before the twelve edge rules are done; every
\* edge rule reads cells the face updates of this iteration wrote, and every
\* corner rule reads cells the edge rules of this iteration wrote.
C21_FacesThenEdgesThenCorners ==
    \A p \in Procs :
        /\ pc[p] \in {"faces", "edges"} => \A c \in EdgesWritten(p) : T[p][c] = T0[p][c]
        /\ pc[p] \in {"faces", "edges", "corners"} => \A c \in CornersWritten(p) : T[p][c] = T0[p][c]
        /\ pc[p] \in {"edges", "corners", "check"} =>
              \A d \in NbSet(p) : \A c \in FaceCells(d) : T[p][c] = FaceValue(p, d, c)
        /\ pc[p] \in {"corners", "check"} =>
              \A n \in ActiveEdges(p) : \A c \in EdgeCells(EdgeRules[n]) :
                  /\ EdgeReads(EdgeRules[n], c) \subseteq FaceCells(EdgeRules[n][2])
                  /\ T[p][c] = EdgeValue(T[p], EdgeRules[n], c)
        /\ pc[p] = "check" =>
              \A n \in ActiveCorners(p) :
                  /\ CornerReads(CornerRules[n]) \subseteq EdgesWritten(p)
                  /\ T[p][CornerCell(CornerRules[n])] = CornerValue(T[p], CornerRules[n])

\* C22: the cells of an edge with along-edge index 1 .. chunck - 2 are written
\* in an iteration only by the edge stage and only if both faces of the edge
\* have a neighbour; each then becomes 2 * T[one step in] - T[two steps in]
\* along the axis of the first face of its rule, taken from T as it stands
\* when the rule runs; the cells of the other edges keep their values.
C22_EdgeExtrapolation ==
    [][\A p \in Procs : \A n \in 1 .. Len(EdgeRules) : \A c \in EdgeCells(EdgeRules[n]) :
          LET r == EdgeRules[n]
              one == Shift(c, AxisOf(r[1]), 0 - SignOf(r[1]))
              two == Shift(c, AxisOf(r[1]), 0 - 2 * SignOf(r[1]))
          IN  IF pc[p] = "edges" /\ n \in ActiveEdges(p)
              THEN /\ one \in FaceCells(r[2]) /\ T'[p][one] = T[p][one]
                   /\ \/ T'[p][c] = 2 * T[p][one] - T[p][two]
                      \/ T'[p][c] = 2 * T[p][one] - T'[p][two]
              ELSE pc[p] # "setup" => T'[p][c] = T[p][c]]_vars
C22_Witness ==
    \E p \in Procs :
        /\ pc[p] = "corners"
        /\ time[p] >= 1
        /\ ActiveEdges(p) # {}
        /\ ActiveEdges(p) # 1 .. Len(EdgeRules)
        /\ \E c \in EdgesWritten(p) : T[p][c] # T0[p][c]
        /\ \E d \in Axes : chunck[d] >= 4

\* the eight corner cells of a block
AllCorners == {CornerCell(CornerRules[n]) : n \in 1 .. Len(CornerRules)}
\* C23: a corner cell is written in an iteration only by the corner stage and
\* only if the three faces meeting at it have a neighbour; it then becomes a
\* third of the sum of the three cells one step towards the inside of the
\* block along x, y and z, taken from T; the other corners keep their values.
C23_CornerAverage ==
    [][\A p \in Procs : \A n \in 1 .. Len(CornerRules) :
          LET r == CornerRules[n]
              c == CornerCell(r)
          IN  IF pc[p] = "corners" /\ n \in ActiveCorners(p)
              THEN /\ CornerReads(r) \cap AllCorners = {}
                   /\ T'[p][c] = (T[p][Shift(c, X, 0 - SignOf(r[1]))]
                                    + T[p][Shift(c, Y, 0 - SignOf(r[2]))]
                                    + T[p][Shift(c, Z, 0 - SignOf(r[3]))]) \div 3
              ELSE pc[p] # "setup" => T'[p][c] = T[p][c]]_vars
C23_Witness ==
    \E p \in Procs :
        /\ pc[p] = "check"
        /\ Cardinality(ActiveCorners(p)) >= 2
        /\ Cardinality(ActiveCorners(p)) < Len(CornerRules)
        /\ \E c \in CornersWritten(p) : T[p][c] # T0[p][c] /\ T[p][c] # 0

\* the largest |T - T0| over the interior cells of p, in residual units
MaxDifference(p) == MaxOf({ResUnit * Fabs(T[p][c] - T0[p][c]) : c \in Interior})
\* C24: the residual a process has computed in an iteration is the largest
\* |T - T0| over its interior cells, is not negative, and is 0 exactly when T
\* and T0 agree on every interior cell.
C24_ResidualIsMaxDifference ==
    \A p \in Procs :
        Updated(p) =>
            /\ res[p] = MaxDifference(p)
            /\ res[p] >= 0
            /\ res[p] = 0 <=> \A c \in Interior : T[p][c] = T0[p][c]

\* C25: norm changes only in the update of iteration 0, where it becomes the
\* residual of that iteration if that is not 0 and keeps 1.0 otherwise;
\* globalNorm changes only in the reduction of iteration 0; neither changes in
\* an iteration with index >= 1, and norm is never 0.
C25_NormFixedInFirstIteration ==
    [][\A p \in Procs :
          /\ (pc[p] = "update" /\ time[p] = 0) =>
                norm'[p] = (IF res'[p] # 0 THEN res'[p] ELSE NormOne)
          /\ norm'[p] # norm[p] => (pc[p] = "update" /\ time[p] = 0 /\ norm[p] = NormOne)
          /\ globalNorm'[p] # globalNorm[p] => (pc[p] = "normwait" /\ time[p] = 0)
          /\ time[p] >= 1 => (norm'[p] = norm[p] /\ globalNorm'[p] = globalNorm[p])
          /\ norm[p] # 0 /\ norm'[p] # 0]_vars
C25_Witness ==
    /\ size >= 2
    /\ \A p \in Procs :
          /\ pc[p] = "done"
          /\ time[p] >= 2
          /\ norm[p] # NormOne
          /\ globalNorm[p] # NormOne

\* the positions of the sum reductions among the collective calls of p
SumCalls(p) == {k \in 1 .. Len(contribs[p]) : contribs[p][k].op = "sum"}
\* C26: a process that has finished has entered exactly one sum reduction,
\* after the loop, with the mean of |T - ramp| over its interior cells as its
\* contribution, and the error rank 0 has printed is (100 times) the result of
\* that reduction, the sum of the contributions of all processes.
C26_ReportedErrorIsGlobal ==
    /\ \A p \in Procs :
          pc[p] = "done" =>
              /\ SumCalls(p) = {Len(contribs[p])}
              /\ contribs[p][Len(contribs[p])].val = LocalError(T[p], p)
              /\ globalError[p] = SumContribs(Len(contribs[p]), Procs)
    /\ (0 \in Procs /\ pc[0] = "done") => report[3] = 100 * globalError[0]
\* C27: a process that has started the exchange of an iteration completes
\* its receives, the wait on its sends, the updates and the reductions of
\* that iteration: it reaches the head of the next iteration or leaves the
\* loop, whether MPI buffers the sends or not.
C27_ExchangeCompletes ==
    \A p \in 0 .. (MaxProcs - 1) :
        (p \in Procs /\ pc[p] \in InIteration) ~> (p \in Procs /\ pc[p] \in {"loop", "report"})
C27_Witness ==
    /\ ~eager
    /\ size >= 4
    /\ \E p \in Procs :
          /\ time[p] >= 1
          /\ pc[p] = "recv"
          /\ chan[<<neighbors[p][rdir[p]], p>>] = << >>
          /\ \E q \in Procs : chan[<<p, q>>] # << >>

\* the cells of T0 the update of face d reads for its cell c
StencilReads(d, c) ==
    {Shift(c, ax, sg) : ax \in Axes, sg \in {0 - 1, 1}} \ {Shift(c, AxisOf(d), SignOf(d))}
\* C28: with a valid partition every index the pack, the face updates, the
\* edge rules and the corner rules of a process use lies inside the extent
\* of T, T0 and the buffers, blocks of 2 cells on an axis included.
C28_IndicesInsideExtent ==
    \A p \in Procs :
        (ValidPartition /\ pc[p] \notin {"setup", "aborted"}) =>
            /\ \A d \in NbSet(p) :
                  /\ PackCount(d) <= Cardinality(DOMAIN sendBuffer[p][d])
                  /\ PackCount(d) <= Cardinality(DOMAIN receiveBuffer[p][d])
                  /\ \A n \in 0 .. (PackCount(d) - 1) :
                        /\ CounterCell(d, SendLayer(d), n) \in Cells
                        /\ CounterCell(d, FaceLayer(d), n) \in Cells
                        /\ StencilReads(d, CounterCell(d, FaceLayer(d), n)) \subseteq Cells
            /\ \A n \in ActiveEdges(p) : \A c \in EdgeCells(EdgeRules[n]) :
                  EdgeReads(EdgeRules[n], c) \subseteq Cells
            /\ \A n \in ActiveCorners(p) :
                  CornerCell(CornerRules[n]) \in Cells /\ CornerReads(CornerRules[n]) \subseteq Cells

\* C29: a send buffer is written only at the head of an iteration, when no
\* send of the process is outstanding, and what a message in flight carries
\* is what its send buffer holds; a receive buffer is written only by a
\* receive of its process, with data of the current iteration, never while
\* the process is in its update.
C29_BuffersNotReusedEarly ==
    [][\A p \in Procs :
          /\ (pc[p] # "setup" /\ sendBuffer'[p] # sendBuffer[p]) =>
                (pc[p] = "loop" /\ \A q \in Procs : chan[<<p, q>>] = << >>)
          /\ \A q \in Procs : \A n \in 1 .. Len(chan'[<<p, q>>]) :
                chan'[<<p, q>>][n].data = sendBuffer'[p][chan'[<<p, q>>][n].dir]
          /\ (pc[p] # "setup" /\ receiveBuffer'[p] # receiveBuffer[p]) =>
                /\ pc[p] = "recv"
                /\ \A d \in Directions :
                      receiveBuffer'[p][d] # receiveBuffer[p][d] =>
                          \A n \in 0 .. (PackCount(d) - 1) : receiveBuffer'[p][d][n].org.it = time[p]]_vars
C29_Witness ==
    /\ ~eager
    /\ \E p, q \in Procs :
          /\ pc[p] = "wait"
          /\ time[p] >= 1
          /\ chan[<<p, q>>] # << >>
          /\ \E d \in NbSet(p) : receiveBuffer[p][d][0].org.it = time[p]

\* the cell of the neighbour in direction d that stands for the same global
\* cell as cell c of the face in direction d
Twin(d, c) == [c EXCEPT ![AxisOf(d) + 1] = FaceLayer(Opposite(d))]
\* p and its neighbour q are both between two iterations, or both after the
\* loop, having made the same number of iterations
SameProgress(p, q) ==
    /\ pc[p] \in {"loop"} \cup PostLoop
    /\ pc[q] \in {"loop"} \cup PostLoop
    /\ Executed(p) = Executed(q)
\* C30: after setup and after every iteration the two copies of the plane two
\* adjacent processes share hold the same value in every cell, the cells on
\* the rim of the plane included.
C30_SharedPlaneAgrees ==
    \A p \in Procs : \A d \in NbSet(p) :
        SameProgress(p, neighbors[p][d]) =>
            \A c \in WholeFace(d) : T[p][c] = T[neighbors[p][d]][Twin(d, c)]

C32_ReportedCountIsExecuted ==
    \A p \in Procs :
        /\ (p = 0 /\ pc[p] \in {"errwait", "done"} /\ report[1] = "converged") =>
               (report[2] = Executed(p) /\ report[2] >= 1)
        /\ (pc[p] \in PostLoop /\ NotConverged(p)) => finalNumIterations[p] = 0
        /\ (p = 0 /\ pc[p] \in {"errwait", "done"} /\ report[1] = "did not converge") =>
               report[2] = iterMax

=============================================================================
